---- MODULE Spec2Model ----
(***************************************************************************)
(* comic-flex: a fullscreen slideshow viewer (Go, gotk3).  The repository  *)
(* holds three revisions of the same program:                              *)
(*   latest   - src/main.go lines 1-413   (specification Spec)             *)
(*   middle   - src/unnamed/part_000      (specification SpecMid)          *)
(*   earliest - src/main.go lines 415-666 (specification SpecOld)          *)
(* A path is a sequence of one-character strings, so that filepath.Ext is  *)
(* computed and not assumed.                                               *)
(***************************************************************************)
EXTENDS Integers, Sequences, FiniteSets, TLC

\* ---------------------------------------------------------------- bounds
\* Longest directory walk modelled (entries handed to the walk callback).
MaxWalk == 4
\* Largest glib source id handed out by glib.TimeoutAdd (ids grow forever).
MaxSourceId == 5

\* ------------------------------------------------------------ file system
\* The entries a walk of the content directory can visit, in the lexical
\* order filepath.Walk visits them.
AllEntries ==
  << [path |-> <<"c">>,                                  isDir |-> TRUE],
     [path |-> <<"c","/","a",".","j","p","g">>,          isDir |-> FALSE],
     [path |-> <<"c","/","b",".","p","n","g">>,          isDir |-> FALSE],
     [path |-> <<"c","/","d",".","g","i","f">>,          isDir |-> TRUE],
     [path |-> <<"c","/","d",".","g","i","f","/","e">>,  isDir |-> FALSE],
     [path |-> <<"c","/","n",".","t","x","t">>,          isDir |-> FALSE],
     [path |-> <<"c","/","p",".","b","m","p">>,          isDir |-> FALSE] >>

RECURSIVE SubWalk(_, _)
\* The entries of AllEntries whose position is in S, from position i on.
SubWalk(S, i) ==
  IF i > Len(AllEntries) THEN <<>>
  ELSE IF i \in S THEN <<AllEntries[i]>> \o SubWalk(S, i + 1)
       ELSE SubWalk(S, i + 1)

\* The walks of a directory: the root first (a walk that cannot even stat
\* its root visits nothing), a file below a directory only after it.
Walks ==
  { SubWalk(S, 1) : S \in { T \in SUBSET (1..Len(AllEntries)) :
                              /\ Cardinality(T) <= MaxWalk
                              /\ (T /= {} => 1 \in T)
                              /\ (5 \in T => 4 \in T) } }

\* The manifests tried: image_path of each entry, in file order.
Manifests ==
  { <<>>,
    << <<"c","/","a",".","j","p","g">> >>,
    << <<".","/","c","/","a",".","j","p","g">>,
       <<"c","/","b",".","p","n","g">> >> }

\* What gdk.PixbufNewFromFile and ScaleSimple can do to an image file:
\* decode and scale it, fail to decode it (nil pixbuf and an error), or
\* decode it and fail to scale it.
DecodeOutcomes == {"ok", "err", "scaleErr"}

Keys == {"space", "Right", "Left", "other"}

NoImage == <<>>

VARIABLES
  walk,          \* entries filepath.Walk hands to the callback
  walkErr,       \* the walk ends with an error after those entries
  isRandomOrder, \* config.IsRandomOrder
  enableText,    \* config.EnableText
  manifest,      \* manifest.Entries[i].ImagePath
  ppc,           \* producer goroutine: position in its code
  ppos,          \* producer goroutine: next walk entry
  errBuf,        \* buffered contents of errChan (capacity 1)
  errClosed,     \* errChan is closed
  imagesClosed,  \* imagesChan is closed
  imagesChan,    \* listImages' local imagesChan: "open" or "nil"
  errChan,       \* listImages' local errChan: "open" or "nil"
  images,        \* the image list
  pc,            \* main: "listing", "startup", "loop"
  status,        \* "running", "fatal" (log.Fatal), "quit", "panic" (nil
                 \* dereference), "indexPanic" (index out of range or
                 \* modulo by zero)
  currentIndex,
  displayed,     \* path of the image set on the gtk.Image, or NoImage
  overlayKids,   \* which of drawingArea, textContainer are attached
  sources,       \* pending glib timeout sources
  timeoutID,     \* 0 or the id kept in timeoutID
  nextId,        \* next id glib.TimeoutAdd returns
  lastEvent,     \* the handler that ran last
  lastDecode,    \* outcome of the last decode, "none" before any
  prevShown      \* image displayed before the last handler ran

vars == << walk, walkErr, isRandomOrder, enableText, manifest, ppc, ppos,
           errBuf, errClosed, imagesClosed, imagesChan, errChan, images, pc,
           status, currentIndex, displayed, overlayKids, sources, timeoutID,
           nextId, lastEvent, lastDecode, prevShown >>

configVars == << walk, walkErr, isRandomOrder, enableText, manifest >>
chanVars == << ppc, ppos, errBuf, errClosed, imagesClosed, imagesChan, errChan >>
guiVars == << currentIndex, displayed, overlayKids, sources, timeoutID,
              nextId, lastEvent, lastDecode, prevShown >>

\* ------------------------------------------------------- pure functions
RECURSIVE ExtFrom(_, _)
\* filepath.Ext: scan back from the end to the last path separator; the
\* suffix from the first dot met, else the empty string.
ExtFrom(path, i) ==
  IF i < 1 \/ path[i] = "/" THEN <<>>
  ELSE IF path[i] = "." THEN SubSeq(path, i, Len(path))
       ELSE ExtFrom(path, i - 1)

Ext(path) == ExtFrom(path, Len(path))

AllowedExt ==
  { <<".","j","p","g">>, <<".","j","p","e","g">>, <<".","p","n","g">>,
    <<".","g","i","f">>, <<".","b","m","p">> }

\* The walk callback's test: a non-directory with an allowed extension.
IsImage(entry) == ~entry.isDir /\ Ext(entry.path) \in AllowedExt

RECURSIVE Enumerated(_)
\* The paths the walk callback collects, in visiting order.
Enumerated(w) ==
  IF w = <<>> THEN <<>>
  ELSE IF IsImage(Head(w)) THEN <<Head(w).path>> \o Enumerated(Tail(w))
       ELSE Enumerated(Tail(w))

\* A swap that forgets its second assignment.
SwapOverwriting(s, i, j) == [s EXCEPT ![i] = s[j]]

\* The swap rdm.Shuffle is given.
Swap(s, i, j) == [s EXCEPT ![i] = s[j], ![j] = s[i]]

RECURSIVE Shuffle(_, _, _)
\* rand.Shuffle: for i from the last position down to the second, swap
\* position i with a random position js[i] <= i (positions from 1).
Shuffle(s, i, js) ==
  IF i <= 1 THEN s ELSE Shuffle(Swap(s, i, js[i]), i - 1, js)

ShuffleChoices(n) == { js \in [1..n -> 1..n] : \A i \in 1..n : js[i] <= i }

\* list[i] with Go's positions, which start at 0.
At(list, i) == list[i + 1]

\* updateImage's guard on the index.
ClampIndex(i, n) == IF i < 0 \/ i >= n THEN 0 ELSE i

\* Forward step of the timer, space/Right and click handlers.
NextIndex(i, n) == (i + 1) % n

\* The Left key without its wrap at the start.
PrevIndexNoWrap(i, n) == i - 1

\* Backward step of the Left key.
PrevIndex(i, n) == IF i = 0 THEN n - 1 ELSE i - 1

\* A switch whose other keys fall into the forward case.
KeyIndexDefaultForward(key, i, n) ==
  IF key = "Left" THEN PrevIndex(i, n) ELSE NextIndex(i, n)

\* The key-press handler's switch.
KeyIndex(key, i, n) ==
  CASE key \in {"space", "Right"} -> NextIndex(i, n)
    [] key = "Left" -> PrevIndex(i, n)
    [] OTHER -> i

\* Linear scan of the manifest for an exact image_path match.
HasEntry(path) == \E k \in 1..Len(manifest) : manifest[k] = path

BothKids == {"drawingArea", "textContainer"}

\* The caption part of the latest updateImage: only under enableText are
\* the two widgets removed, and added again on a match.
CaptionAfter(kids, path) ==
  IF enableText
    THEN IF HasEntry(path) THEN BothKids ELSE {}
    ELSE kids

\* The cleanup closure updateImage returns, run by every caller: after a
\* decode error it dereferences the nil pixbuf.
CleanupPanics(outcome) == outcome = "err"

\* ------------------------------------------------- latest: listImages
InitConfig ==
  /\ walk \in Walks
  /\ walkErr \in BOOLEAN
  /\ (walk = <<>> => walkErr)
  /\ isRandomOrder \in BOOLEAN
  /\ enableText \in BOOLEAN
  /\ manifest \in Manifests

InitGui ==
  /\ currentIndex = 0
  /\ displayed = NoImage
  /\ overlayKids = BothKids
  /\ sources = {}
  /\ timeoutID = 0
  /\ nextId = 1
  /\ lastEvent = "none"
  /\ lastDecode = "none"
  /\ prevShown = NoImage

\* main has built the widgets (both caption widgets attached) and calls
\* listImages, which has started the producer goroutine.
Init ==
  /\ InitConfig
  /\ ppc = "walk"
  /\ ppos = 1
  /\ errBuf = <<>>
  /\ errClosed = FALSE
  /\ imagesClosed = FALSE
  /\ imagesChan = "open"
  /\ errChan = "open"
  /\ images = <<>>
  /\ pc = "listing"
  /\ status = "running"
  /\ InitGui

Listing == pc = "listing" /\ status = "running"

\* Producer: the callback returns nil for an entry that is not an image.
ProducerSkip ==
  /\ Listing /\ ppc = "walk" /\ ppos <= Len(walk)
  /\ ~IsImage(walk[ppos])
  /\ ppos' = ppos + 1
  /\ UNCHANGED << configVars, ppc, errBuf, errClosed, imagesClosed,
                  imagesChan, errChan, images, pc, status, guiVars >>

\* A received path put at the front of the list.
CollectFront(list, path) == <<path>> \o list

\* Where a received path goes in the list.
Collect(list, path) == Append(list, path)

\* Producer sends a path on the unbuffered imagesChan and the select loop
\* receives it: one rendezvous.
SendRecvImage ==
  /\ Listing /\ ppc = "walk" /\ ppos <= Len(walk)
  /\ IsImage(walk[ppos])
  /\ imagesChan = "open"
  /\ images' = Collect(images, walk[ppos].path)
  /\ ppos' = ppos + 1
  /\ UNCHANGED << configVars, ppc, errBuf, errClosed, imagesClosed,
                  imagesChan, errChan, pc, status, guiVars >>

\* Producer: Walk returns; with an error it goes on to send it.
ProducerWalkEnd ==
  /\ Listing /\ ppc = "walk" /\ ppos > Len(walk)
  /\ ppc' = IF walkErr THEN "sendErr" ELSE "closeErr"
  /\ UNCHANGED << configVars, ppos, errBuf, errClosed, imagesClosed,
                  imagesChan, errChan, images, pc, status, guiVars >>

\* Producer: errChan <- err (buffer of one, never blocks).
ProducerSendErr ==
  /\ Listing /\ ppc = "sendErr" /\ Len(errBuf) < 1
  /\ errBuf' = Append(errBuf, "err")
  /\ ppc' = "closeErr"
  /\ UNCHANGED << configVars, ppos, errClosed, imagesClosed, imagesChan,
                  errChan, images, pc, status, guiVars >>

\* Producer: deferred close(errChan) runs first.
ProducerCloseErr ==
  /\ Listing /\ ppc = "closeErr"
  /\ errClosed' = TRUE
  /\ ppc' = "closeImages"
  /\ UNCHANGED << configVars, ppos, errBuf, imagesClosed, imagesChan,
                  errChan, images, pc, status, guiVars >>

\* A producer that ends without closing imagesChan.
ProducerEndsWithoutClose ==
  /\ Listing /\ ppc = "closeImages"
  /\ ppc' = "done"
  /\ UNCHANGED << configVars, ppos, errBuf, errClosed, imagesClosed,
                  imagesChan, errChan, images, pc, status, guiVars >>

\* Producer: deferred close(imagesChan) runs last.
ProducerCloseImages ==
  /\ Listing /\ ppc = "closeImages"
  /\ imagesClosed' = TRUE
  /\ ppc' = "done"
  /\ UNCHANGED << configVars, ppos, errBuf, errClosed, imagesChan,
                  errChan, images, pc, status, guiVars >>

\* select: imagesChan is closed, ok is false.
RecvImagesClosed ==
  /\ Listing /\ imagesChan = "open" /\ imagesClosed
  /\ imagesChan' = "nil"
  /\ UNCHANGED << configVars, ppc, ppos, errBuf, errClosed, imagesClosed,
                  errChan, images, pc, status, guiVars >>

\* A select loop that does not look at the received error.
ErrNeverFatal(err) == FALSE

\* Whether a value received from errChan ends the program.
ErrIsFatal(err) == err /= "nil"

\* select: a value comes out of errChan: the buffered error, or nil once
\* the channel is closed and drained.
RecvErr ==
  /\ Listing /\ errChan = "open"
  /\ \/ /\ errBuf /= <<>>
        /\ errBuf' = Tail(errBuf)
        /\ IF ErrIsFatal(Head(errBuf))
             THEN status' = "fatal" /\ errChan' = errChan
             ELSE status' = status /\ errChan' = "nil"
     \/ /\ errBuf = <<>> /\ errClosed
        /\ errBuf' = errBuf
        /\ IF ErrIsFatal("nil")
             THEN status' = "fatal" /\ errChan' = errChan
             ELSE status' = status /\ errChan' = "nil"
  /\ UNCHANGED << configVars, ppc, ppos, errClosed, imagesClosed,
                  imagesChan, images, pc, guiVars >>

\* Both local channels are nil: the loop breaks, the list is shuffled when
\* asked for, and listImages returns it to main.
ListImagesReturn ==
  /\ Listing /\ imagesChan = "nil" /\ errChan = "nil"
  /\ IF isRandomOrder
       THEN \E js \in ShuffleChoices(Len(images)) :
              images' = Shuffle(images, Len(images), js)
       ELSE images' = images
  /\ pc' = "startup"
  /\ UNCHANGED << configVars, chanVars, status, guiVars >>

\* ------------------------------------------------ latest: the slideshow
\* updateImage from "imagePath := images[currentIndex]" on, followed by
\* the cleanup it returns, for the index i now in currentIndex.
Display(i, outcome) ==
  /\ prevShown' = displayed
  /\ IF i < 0 \/ i >= Len(images)
       THEN \* images[currentIndex]: index out of range
            /\ status' = "indexPanic"
            /\ lastDecode' = "none"
            /\ UNCHANGED << displayed, overlayKids >>
       ELSE /\ lastDecode' = outcome
            /\ CASE outcome = "ok" ->
                      /\ displayed' = At(images, i)
                      /\ overlayKids' = CaptionAfter(overlayKids, At(images, i))
                      /\ status' = "running"
                 [] outcome = "scaleErr" ->
                      /\ status' = "fatal"
                      /\ UNCHANGED << displayed, overlayKids >>
                 [] OTHER ->
                      /\ status' = IF CleanupPanics(outcome)
                                     THEN "panic" ELSE "running"
                      /\ UNCHANGED << displayed, overlayKids >>

\* updateImage with the earliest revision's "currentIndex++" left in.
UpdateImageIncrementing(idx, outcome) ==
  LET i == ClampIndex(idx, Len(images))
  IN currentIndex' = i + 1 /\ Display(i, outcome)

\* updateImage and its cleanup, for the index idx the caller has just
\* stored in currentIndex.
UpdateImage(idx, outcome) ==
  LET i == ClampIndex(idx, Len(images))
  IN currentIndex' = i /\ Display(i, outcome)

\* main from "currentIndex := 0" to gtk.Main: the one TimeoutAdd, the
\* handlers, the initial update.
Startup ==
  /\ pc = "startup" /\ status = "running"
  /\ timeoutID' = nextId
  /\ sources' = sources \cup {nextId}
  /\ nextId' = nextId + 1
  /\ \E o \in DecodeOutcomes : UpdateImage(0, o)
  /\ lastEvent' = "startup"
  /\ pc' = "loop"
  /\ UNCHANGED << configVars, chanVars, images >>

InLoop == pc = "loop" /\ status = "running"

\* A handler storing the index idx and updating; with an empty list the
\* modulo by zero, or the indexing in updateImage, panics.
StepIndex(idx, o) ==
  IF Len(images) = 0
    THEN /\ status' = "indexPanic"
         /\ UNCHANGED << currentIndex, displayed, overlayKids, lastDecode,
                         prevShown >>
    ELSE UpdateImage(idx, o)

\* The timeout callback: advance, update, return false (the source goes).
TimeoutCallback ==
  /\ InLoop
  /\ timeoutID \in sources
  /\ \E o \in DecodeOutcomes :
       StepIndex(NextIndex(currentIndex, Len(images)), o)
  /\ sources' = sources \ {timeoutID}
  /\ lastEvent' = "timer"
  /\ UNCHANGED << configVars, chanVars, images, pc, timeoutID, nextId >>

KeyPress ==
  /\ InLoop
  /\ \E key \in Keys :
       /\ \E o \in DecodeOutcomes :
            StepIndex(KeyIndex(key, currentIndex, Len(images)), o)
       /\ lastEvent' = key
  /\ UNCHANGED << configVars, chanVars, images, pc, sources, timeoutID,
                  nextId >>

ButtonPress ==
  /\ InLoop
  /\ \E o \in DecodeOutcomes :
       StepIndex(NextIndex(currentIndex, Len(images)), o)
  /\ lastEvent' = "click"
  /\ UNCHANGED << configVars, chanVars, images, pc, sources, timeoutID,
                  nextId >>

\* The window's destroy handler: gtk.MainQuit.
Destroy ==
  /\ InLoop
  /\ status' = "quit"
  /\ UNCHANGED << configVars, chanVars, images, pc, guiVars >>

Next ==
  \/ ProducerSkip
  \/ SendRecvImage
  \/ ProducerWalkEnd
  \/ ProducerSendErr
  \/ ProducerCloseErr
  \/ ProducerCloseImages
  \/ RecvImagesClosed
  \/ RecvErr
  \/ ListImagesReturn
  \/ Startup
  \/ TimeoutCallback
  \/ KeyPress
  \/ ButtonPress
  \/ Destroy

Spec == Init /\ [][Next]_vars

\* ================================================== latest revision: claims
\* Steps of the latest revision's handlers once the event loop runs over a
\* list of at least one image.
Forward == TimeoutCallback \/ ButtonPress
            \/ (KeyPress /\ lastEvent' \in {"space", "Right"})
Backward == KeyPress /\ lastEvent' = "Left"

\* C1: with n >= 1 images and current index i, a timer firing, space,
\* Right and a click set currentIndex to (i+1) mod n, Left sets it to
\* (i-1) mod n (n-1 at i = 0), and after a handler whose decode succeeded
\* the image displayed is images[currentIndex].
C1_Transitions ==
  [][ (InLoop /\ Len(images) >= 1) =>
        /\ Forward  => currentIndex' = (currentIndex + 1) % Len(images)
        /\ Backward => /\ currentIndex' = (currentIndex - 1) % Len(images)
                       /\ (currentIndex = 0 => currentIndex' = Len(images) - 1)
        /\ ((Forward \/ KeyPress) /\ lastDecode' = "ok")
             => displayed' = images'[currentIndex' + 1] ]_vars

\* Left pressed on the first of at least two images: the last one is shown.
C1_Witness ==
  /\ pc = "loop" /\ lastEvent = "Left" /\ lastDecode = "ok"
  /\ Len(images) >= 2
  /\ prevShown = images[1]
  /\ currentIndex = Len(images) - 1
  /\ displayed = images[Len(images)]

\* C2: with n >= 1 images, 0 <= currentIndex < n after startup and after
\* any sequence of timer, key and click events.
C2_IndexInRange ==
  (pc = "loop" /\ Len(images) >= 1) =>
     (0 <= currentIndex /\ currentIndex < Len(images))

\* A click on the last of three images wrapped to the first.
C2_Witness ==
  /\ pc = "loop" /\ lastEvent = "click" /\ lastDecode = "ok"
  /\ Len(images) = 3
  /\ prevShown = images[3]
  /\ currentIndex = 0

\* C3: whenever the timeout callback has run (and the program goes on), a
\* timeout is pending again.
C3_TimerRearms ==
  [][ (TimeoutCallback /\ status' = "running") => sources' /= {} ]_vars

\* C4: after startup and after every update that decoded its image, the
\* caption widgets are attached iff enable_text is true and a manifest
\* entry has exactly the displayed image's path.
C4_CaptionIff ==
  (pc = "loop" /\ lastDecode = "ok") =>
     /\ overlayKids \in {{}, BothKids}
     /\ overlayKids = BothKids <=>
          (enableText /\ \E k \in 1..Len(manifest) :
                            manifest[k] = images[currentIndex + 1])

\* C5: an image that cannot be decoded is skipped: the cleanup touches no
\* pixbuf and the program goes on.
C5_DecodeErrorSkipped ==
  (pc = "loop" /\ lastDecode = "err") => status \in {"running", "quit"}

\* path ends with ext.
HasSuffix(path, ext) ==
  /\ Len(path) >= Len(ext)
  /\ SubSeq(path, Len(path) - Len(ext) + 1, Len(path)) = ext

\* The non-directory entries of the walk with an allowed extension.
WantedEntries ==
  SelectSeq(walk, LAMBDA e : ~e.isDir /\ \E x \in AllowedExt : HasSuffix(e.path, x))

\* Their paths, each once, in the order the walk visited them.
WantedPaths == [k \in 1..Len(WantedEntries) |-> WantedEntries[k].path]

Returned == pc \in {"startup", "loop"}

\* C6: with is_random_order false, listImages returns exactly the wanted
\* paths, each once and in walk order, whatever the interleaving of the
\* producer goroutine and the select loop.
C6_ListIsWalkOrder ==
  (Returned /\ ~isRandomOrder) => images = WantedPaths

\* A walk of the root, a skipped entry and two images has been returned.
C6_Witness ==
  /\ pc = "startup" /\ ~isRandomOrder
  /\ Len(images) >= 2
  /\ Len(walk) >= Len(images) + 2
  /\ ppc = "done"

Occurrences(list, x) == Cardinality({ k \in 1..Len(list) : list[k] = x })

IsPermutation(a, b) ==
  /\ Len(a) = Len(b)
  /\ \A k \in 1..Len(b) : Occurrences(a, b[k]) = Occurrences(b, b[k])

\* C7: the returned list is the enumerated sequence unchanged when
\* is_random_order is false and a permutation of it when true, and no
\* event handler modifies the list afterwards.
C7_ShuffleOnlyWhenAsked ==
  /\ [](Returned => IF isRandomOrder
                      THEN IsPermutation(images, WantedPaths)
                      ELSE images = WantedPaths)
  /\ [][Returned => images' = images]_vars

\* Three images came back in another order and a handler has run since.
C7_Witness ==
  /\ pc = "loop" /\ isRandomOrder
  /\ Len(images) = 3
  /\ images /= WantedPaths
  /\ lastEvent \in {"timer", "click", "space", "Right", "Left", "other"}

\* C8: if the walk ends with an error, listImages never returns a list:
\* the loop cannot drop the error (errChan is never set to nil), and until
\* the program has ended fatally some step of the listing can be taken.
C8_WalkErrorIsFatal ==
  walkErr =>
    /\ pc = "listing"
    /\ errChan = "open"
    /\ status \in {"running", "fatal"}
    /\ (status = "running" =>
          ENABLED (ProducerSkip \/ SendRecvImage \/ ProducerWalkEnd
                     \/ ProducerSendErr \/ ProducerCloseErr
                     \/ ProducerCloseImages \/ RecvImagesClosed \/ RecvErr))

\* The image channel was seen closed first, and the error still ended the
\* program, after a path had been received.
C8_Witness ==
  /\ walkErr /\ status = "fatal"
  /\ imagesChan = "nil"
  /\ images /= <<>>

\* A step of listImages or of its producer goroutine.
ListingStep ==
  \/ ProducerSkip \/ SendRecvImage \/ ProducerWalkEnd \/ ProducerSendErr
  \/ ProducerCloseErr \/ ProducerCloseImages \/ RecvImagesClosed
  \/ RecvErr \/ ListImagesReturn

\* What is left of the listing: walk entries to visit, producer statements
\* to run, buffered errors, channel variables not yet nil, the return.
ListingMeasure ==
  (Len(walk) + 1 - ppos)
  + (CASE ppc = "walk" -> 8 [] ppc = "sendErr" -> 6 [] ppc = "closeErr" -> 4
       [] ppc = "closeImages" -> 2 [] OTHER -> 0)
  + Len(errBuf)
  + (IF imagesChan = "open" THEN 1 ELSE 0)
  + (IF errChan = "open" THEN 1 ELSE 0)
  + (IF pc = "listing" THEN 1 ELSE 0)

\* C11: listImages terminates in every interleaving (while it runs, it or
\* the producer can take a step, and every such step lowers a measure that
\* is never negative), and once it has returned the producer has walked
\* every entry, has nothing left in a channel and has closed both: no
\* goroutine but the event-loop thread runs when currentIndex is used.
C11_ListingEndsProducerDone ==
  /\ [](/\ ListingMeasure >= 0
        /\ Listing => ENABLED ListingStep
        /\ Returned => /\ ppc = "done"
                       /\ ppos = Len(walk) + 1
                       /\ errBuf = <<>>
                       /\ errClosed /\ imagesClosed)
  /\ [][ListingStep => ListingMeasure' < ListingMeasure]_vars

\* A handler has run over two images that came through the channel.
C11_Witness ==
  /\ pc = "loop" /\ ppc = "done"
  /\ Len(images) >= 2
  /\ lastEvent \in {"timer", "click"} \cup Keys

\* C12: for every list length n >= 0, startup and the handlers index the
\* list only inside it and take the index modulo a non-zero length: no
\* state is an index-out-of-range or division-by-zero crash.
C12_NoIndexCrash == status /= "indexPanic"

\* C13: with n >= 1 images, a key press whose key is none of space, Right
\* and Left leaves currentIndex and the image list unchanged.
C13_OtherKeyKeepsIndex ==
  [][ (InLoop /\ Len(images) >= 1 /\ KeyPress /\ lastEvent' = "other")
        => (currentIndex' = currentIndex /\ images' = images) ]_vars

\* Another key pressed on the second image: it is displayed again.
C13_Witness ==
  /\ pc = "loop" /\ lastEvent = "other" /\ lastDecode = "ok"
  /\ Len(images) >= 2
  /\ currentIndex = 1
  /\ prevShown = images[2] /\ displayed = images[2]

\* =============================================== middle revision: model
\* updateImage's timer reset: remove the source kept in timeoutID (if any)
\* and add a new one.  The earliest revision resets its timer the same way.
ResetTimerKeepingOld(srcs) == srcs \cup {nextId}

ResetTimer(srcs) == (srcs \ {timeoutID}) \cup {nextId}

\* main has loaded config and manifest, built the widgets and is about to
\* call the sequential listImages.
InitSeq ==
  /\ ppc = "none"
  /\ ppos = 1
  /\ errBuf = <<>>
  /\ errClosed = FALSE
  /\ imagesClosed = FALSE
  /\ imagesChan = "none"
  /\ errChan = "none"
  /\ images = <<>>
  /\ pc = "listing"
  /\ status = "running"
  /\ InitGui

InitMid ==
  /\ InitConfig
  /\ isRandomOrder = FALSE
  /\ InitSeq

\* listImages of the middle and earliest revisions: the walk collects the
\* paths itself; main ends fatally on the walk's error.
SeqListImages ==
  /\ pc = "listing" /\ status = "running"
  /\ IF walkErr
       THEN status' = "fatal" /\ UNCHANGED << images, pc >>
       ELSE images' = Enumerated(walk) /\ pc' = "startup" /\ status' = status
  /\ UNCHANGED << configVars, chanVars, guiVars >>

\* The caption part of the middle updateImage: the two widgets are always
\* removed, and added again under enableText on a match.
MidCaptionAfter(path) ==
  IF enableText /\ HasEntry(path) THEN BothKids ELSE {}

\* The middle updateImage for the index idx just stored in currentIndex;
\* fired holds the source whose callback is running (it returns false).
MidUpdateImage(idx, outcome, fired) ==
  LET i == ClampIndex(idx, Len(images))
  IN /\ currentIndex' = i
     /\ prevShown' = displayed
     /\ IF i < 0 \/ i >= Len(images)
          THEN \* images[currentIndex]: index out of range
               /\ status' = "indexPanic"
               /\ lastDecode' = "none"
               /\ UNCHANGED << displayed, overlayKids, sources, timeoutID,
                               nextId >>
          ELSE /\ lastDecode' = outcome
               /\ IF outcome = "ok"
                    THEN /\ displayed' = At(images, i)
                         /\ overlayKids' = MidCaptionAfter(At(images, i))
                         /\ sources' = ResetTimer(sources) \ fired
                         /\ timeoutID' = nextId
                         /\ nextId' = nextId + 1
                         /\ status' = "running"
                    ELSE \* log.Fatal on a decode or scale error
                         /\ status' = "fatal"
                         /\ UNCHANGED << displayed, overlayKids, sources,
                                         timeoutID, nextId >>

\* Source ids left to hand out.
CanArm == nextId <= MaxSourceId

\* main: the first "Initial image update".
MidStartupFirst ==
  /\ pc = "startup" /\ status = "running" /\ CanArm
  /\ \E o \in DecodeOutcomes : MidUpdateImage(0, o, {})
  /\ lastEvent' = "startup1"
  /\ pc' = "startup2"
  /\ UNCHANGED << configVars, chanVars, images >>

\* main: the handlers are connected, the second initial update, gtk.Main.
MidStartupSecond ==
  /\ pc = "startup2" /\ status = "running" /\ CanArm
  /\ \E o \in DecodeOutcomes : MidUpdateImage(currentIndex, o, {})
  /\ lastEvent' = "startup"
  /\ pc' = "loop"
  /\ UNCHANGED << configVars, chanVars, images >>

MidTimeoutCallback ==
  /\ InLoop /\ CanArm
  /\ \E id \in sources : \E o \in DecodeOutcomes :
       MidUpdateImage(NextIndex(currentIndex, Len(images)), o, {id})
  /\ lastEvent' = "timer"
  /\ UNCHANGED << configVars, chanVars, images, pc >>

MidKeyPress ==
  /\ InLoop /\ CanArm
  /\ \E key \in Keys :
       /\ \E o \in DecodeOutcomes :
            MidUpdateImage(KeyIndex(key, currentIndex, Len(images)), o, {})
       /\ lastEvent' = key
  /\ UNCHANGED << configVars, chanVars, images, pc >>

MidButtonPress ==
  /\ InLoop /\ CanArm
  /\ \E o \in DecodeOutcomes :
       MidUpdateImage(NextIndex(currentIndex, Len(images)), o, {})
  /\ lastEvent' = "click"
  /\ UNCHANGED << configVars, chanVars, images, pc >>

NextMid ==
  \/ SeqListImages
  \/ MidStartupFirst
  \/ MidStartupSecond
  \/ MidTimeoutCallback
  \/ MidKeyPress
  \/ MidButtonPress
  \/ Destroy

SpecMid == InitMid /\ [][NextMid]_vars

\* ============================================== middle revision: claims
\* C9: every call of updateImage cancels the timeout armed before and arms
\* one new one: at most one timeout is ever pending, and after each
\* completed update exactly one is, the one armed last.
C9_OneTimeoutPending ==
  /\ Cardinality(sources) <= 1
  /\ (pc \in {"startup2", "loop"} /\ status \in {"running", "quit"}) =>
        (sources = {timeoutID} /\ timeoutID = nextId - 1)

\* A key press as the second event after startup: the fourth timeout
\* armed is the only one pending.
C9_Witness ==
  /\ pc = "loop" /\ status = "running"
  /\ lastEvent \in Keys
  /\ nextId >= 5
  /\ Cardinality(sources) = 1

\* ============================================= earliest revision: model
\* No config file: captions are always on and the order is never random.
InitOld ==
  /\ InitConfig
  /\ isRandomOrder = FALSE
  /\ enableText = TRUE
  /\ InitSeq

\* The earliest updateImage guards the index from above only.
OldClampIndex(i, n) == IF i >= n THEN 0 ELSE i

\* The caption part of the earliest updateImage: always removed, added
\* again on a match.
OldCaptionAfter(path) == IF HasEntry(path) THEN BothKids ELSE {}

\* The earliest updateImage for the index idx just stored in currentIndex:
\* it displays images[currentIndex] and then increments currentIndex.
OldUpdateImage(idx, outcome, fired) ==
  LET i == OldClampIndex(idx, Len(images))
  IN /\ prevShown' = displayed
     /\ IF i < 0 \/ i >= Len(images)
          THEN \* images[currentIndex]: index out of range
               /\ currentIndex' = i
               /\ status' = "indexPanic"
               /\ lastDecode' = "none"
               /\ UNCHANGED << displayed, overlayKids, sources, timeoutID,
                               nextId >>
          ELSE /\ lastDecode' = outcome
               /\ IF outcome = "ok"
                    THEN /\ displayed' = At(images, i)
                         /\ overlayKids' = OldCaptionAfter(At(images, i))
                         /\ currentIndex' = i + 1
                         /\ sources' = ResetTimer(sources) \ fired
                         /\ timeoutID' = nextId
                         /\ nextId' = nextId + 1
                         /\ status' = "running"
                    ELSE \* log.Fatal on a decode or scale error
                         /\ currentIndex' = i
                         /\ status' = "fatal"
                         /\ UNCHANGED << displayed, overlayKids, sources,
                                         timeoutID, nextId >>

\* main: the first "Initial image update".
OldStartupFirst ==
  /\ pc = "startup" /\ status = "running" /\ CanArm
  /\ \E o \in DecodeOutcomes : OldUpdateImage(0, o, {})
  /\ lastEvent' = "startup1"
  /\ pc' = "startup2"
  /\ UNCHANGED << configVars, chanVars, images >>

\* main: the handlers are connected, the second initial update, gtk.Main.
OldStartupSecond ==
  /\ pc = "startup2" /\ status = "running" /\ CanArm
  /\ \E o \in DecodeOutcomes : OldUpdateImage(currentIndex, o, {})
  /\ lastEvent' = "startup"
  /\ pc' = "loop"
  /\ UNCHANGED << configVars, chanVars, images >>

OldTimeoutCallback ==
  /\ InLoop /\ CanArm
  /\ \E id \in sources : \E o \in DecodeOutcomes :
       OldUpdateImage(NextIndex(currentIndex, Len(images)), o, {id})
  /\ lastEvent' = "timer"
  /\ UNCHANGED << configVars, chanVars, images, pc >>

\* The earliest key handler updates the image only for space, Right, Left.
OldKeyPress ==
  /\ InLoop /\ CanArm
  /\ \E key \in Keys :
       /\ IF key = "other"
            THEN /\ prevShown' = displayed
                 /\ UNCHANGED << currentIndex, displayed, overlayKids,
                                 sources, timeoutID, nextId, lastDecode,
                                 status >>
            ELSE \E o \in DecodeOutcomes :
                   OldUpdateImage(KeyIndex(key, currentIndex, Len(images)),
                                  o, {})
       /\ lastEvent' = key
  /\ UNCHANGED << configVars, chanVars, images, pc >>

OldButtonPress ==
  /\ InLoop /\ CanArm
  /\ \E o \in DecodeOutcomes :
       OldUpdateImage(NextIndex(currentIndex, Len(images)), o, {})
  /\ lastEvent' = "click"
  /\ UNCHANGED << configVars, chanVars, images, pc >>

NextOld ==
  \/ SeqListImages
  \/ OldStartupFirst
  \/ OldStartupSecond
  \/ OldTimeoutCallback
  \/ OldKeyPress
  \/ OldButtonPress
  \/ Destroy

SpecOld == InitOld /\ [][NextOld]_vars

\* ============================================ earliest revision: claims
\* Position from 0 of a path in the image list (paths of a walk differ).
PosOf(path) == (CHOOSE k \in 1..Len(images) : images[k] = path) - 1

\* The last handler displayed an image, and one was displayed before it.
ShownAfterShown ==
  /\ pc = "loop" /\ Len(images) >= 1
  /\ lastDecode = "ok" /\ prevShown /= NoImage

\* C10: with n >= 1 images, the first image displayed when the event loop
\* starts is images[0], each forward event displays the successor modulo n
\* of the image displayed before, and Left displays its predecessor.
C10_SuccessorDisplayed ==
  /\ (ShownAfterShown /\ lastEvent = "startup") => displayed = images[1]
  /\ (ShownAfterShown /\ lastEvent \in {"timer", "click", "space", "Right"})
       => PosOf(displayed) = (PosOf(prevShown) + 1) % Len(images)
  /\ (ShownAfterShown /\ lastEvent = "Left")
       => PosOf(displayed) = (PosOf(prevShown) - 1) % Len(images)

====
